---- MODULE Spec2Model ----
(***************************************************************************)
(* Model of the URL shortener's in-memory shortcode store                  *)
(* (backend/src/models/InMemoryStore.js) and of the service / controller   *)
(* code that drives it (urlService.js, urlController.js), and of the       *)
(* logging middleware's queue, batches and retries (LoggingMiddleware).    *)
(*                                                                         *)
(* Time is counted in milliseconds, as Date does.  A JavaScript Map is a   *)
(* function whose DOMAIN is the set of keys present.  A shortcode is the   *)
(* sequence of its characters, an error message the sequence of its words. *)
(* An optional value is a sequence of length 0 or 1.                       *)
(***************************************************************************)
EXTENDS Integers, Sequences, FiniteSets, TLC

VARIABLES now, urls, analytics, pending, ret, hist,
          redirects, urls2, analytics2, ret2,
          logQueue, requestCounter, flushTimer, flushes, server, stopped

vars == <<now, urls, analytics, pending, ret, hist,
          redirects, urls2, analytics2, ret2,
          logQueue, requestCounter, flushTimer, flushes, server, stopped>>

\* the store, the clock and the requests of the URL service
shortener == <<now, urls, analytics, pending, ret, hist>>

\* the LoggingMiddleware instance: its fields, its flushLogs calls suspended
\* at their await, the batches the server has answered 2xx for and the state
\* of the shutdown() call
logging == <<logQueue, requestCounter, flushTimer, flushes, server, stopped>>

\* the redirect handlers suspended at an await
http == <<redirects>>

\* a second store, given the same calls as the first except cleanupExpired
twin == <<urls2, analytics2, ret2>>

(***************************************************************************)
(* Bounds of the model.                                                    *)
(***************************************************************************)
\* the clock is read at most MaxTicks minutes after start
MaxTicks == 2
\* clicks held by the store at any one time
MaxClicks == 2
\* createShortUrl calls suspended at their await at any one time
MaxPending == 1

MinuteMs == 60 * 1000

(***************************************************************************)
(* Inputs.                                                                 *)
(***************************************************************************)
Undefined == "<undefined>"

CodeA == <<"a", "b", "c", "1", "2", "3">>
CodeB == <<"x", "y", "Z", "7", "8", "9">>
Codes == {CodeA, CodeB}

Urls == {"https://example.com/", "https://other.com/"}

\* validity windows (minutes) of the expiresAt values handed to create
Validities == {1}

ClickDatas ==
  { [ip |-> "10.0.0.1", userAgent |-> "curl", referer |-> "https://ref/"],
    [ip |-> Undefined, userAgent |-> Undefined, referer |-> Undefined],
    [ip |-> "", userAgent |-> "", referer |-> ""] }

(***************************************************************************)
(* Helpers for Map and for JavaScript's `x || ''`.                         *)
(***************************************************************************)
MapSet(m, k, v) == [d \in (DOMAIN m) \cup {k} |-> IF d = k THEN v ELSE m[d]]

MapDelete(m, k) == [d \in (DOMAIN m) \ {k} |-> m[d]]

MapDeleteAll(m, ks) == [d \in (DOMAIN m) \ ks |-> m[d]]

OrEmpty(v) == IF v = Undefined \/ v = "" THEN "" ELSE v

EmptyMap == [d \in {} |-> 0]

Store(u, a) == [urls |-> u, analytics |-> a]

(***************************************************************************)
(* InMemoryStore: each method is an operator from the store S and the      *)
(* clock reading t to the store after the call, the returned value (val,   *)
(* <<>> standing for null), the thrown error (threw) and the set of        *)
(* shortcodes the call deleted.  expiresAt is a Date, hence truthy, in     *)
(* every stored entry, so `url.expiresAt && new Date() > url.expiresAt`    *)
(* is the comparison alone.                                                *)
(***************************************************************************)
ErrStoreExists == <<"Shortcode", "already", "exists">>

NoError == <<>>

\* variant: the record stored gets the default expiry, the record returned
\* the expiresAt passed
create_storesDefaultExpiry(S, t, data) ==
  IF data.shortcode \in DOMAIN S.urls
  THEN [urls |-> S.urls, analytics |-> S.analytics,
        threw |-> ErrStoreExists, val |-> <<>>, evicted |-> {}]
  ELSE LET urlEntry ==
             [id |-> data.shortcode,
              shortcode |-> data.shortcode,
              originalUrl |-> data.originalUrl,
              expiresAt |-> IF data.expiresAt = <<>>
                            THEN t + 30 * 60 * 1000
                            ELSE data.expiresAt[1],
              createdAt |-> t,
              clicks |-> <<>>]
       IN [urls |-> MapSet(S.urls, data.shortcode,
                           [urlEntry EXCEPT !.expiresAt = t + 30 * 60 * 1000]),
           analytics |-> MapSet(S.analytics, data.shortcode,
                                [totalClicks |-> 0, uniqueClicks |-> 0]),
           threw |-> NoError, val |-> <<urlEntry>>, evicted |-> {}]

\* variant: the existence check is left out
create_overwrites(S, t, data) ==
  LET urlEntry ==
        [id |-> data.shortcode,
         shortcode |-> data.shortcode,
         originalUrl |-> data.originalUrl,
         expiresAt |-> IF data.expiresAt = <<>>
                       THEN t + 30 * 60 * 1000
                       ELSE data.expiresAt[1],
         createdAt |-> t,
         clicks |-> <<>>]
  IN [urls |-> MapSet(S.urls, data.shortcode, urlEntry),
      analytics |-> MapSet(S.analytics, data.shortcode,
                           [totalClicks |-> 0, uniqueClicks |-> 0]),
      threw |-> NoError, val |-> <<urlEntry>>, evicted |-> {}]

create(S, t, data) ==
  IF data.shortcode \in DOMAIN S.urls
  THEN [urls |-> S.urls, analytics |-> S.analytics,
        threw |-> ErrStoreExists, val |-> <<>>, evicted |-> {}]
  ELSE LET urlEntry ==
             [id |-> data.shortcode,
              shortcode |-> data.shortcode,
              originalUrl |-> data.originalUrl,
              expiresAt |-> IF data.expiresAt = <<>>
                            THEN t + 30 * 60 * 1000
                            ELSE data.expiresAt[1],
              createdAt |-> t,
              clicks |-> <<>>]
       IN [urls |-> MapSet(S.urls, data.shortcode, urlEntry),
           analytics |-> MapSet(S.analytics, data.shortcode,
                                [totalClicks |-> 0, uniqueClicks |-> 0]),
           threw |-> NoError, val |-> <<urlEntry>>, evicted |-> {}]

\* variant: the expired shortcode is deleted from urls only
findByShortcode_keepsAnalytics(S, t, shortcode) ==
  IF shortcode \notin DOMAIN S.urls
  THEN [urls |-> S.urls, analytics |-> S.analytics, val |-> <<>>, evicted |-> {}]
  ELSE IF t > S.urls[shortcode].expiresAt
  THEN [urls |-> MapDelete(S.urls, shortcode),
        analytics |-> S.analytics,
        val |-> <<>>, evicted |-> {shortcode}]
  ELSE [urls |-> S.urls, analytics |-> S.analytics,
        val |-> <<S.urls[shortcode]>>, evicted |-> {}]

findByShortcode(S, t, shortcode) ==
  IF shortcode \notin DOMAIN S.urls
  THEN [urls |-> S.urls, analytics |-> S.analytics, val |-> <<>>, evicted |-> {}]
  ELSE IF t > S.urls[shortcode].expiresAt
  THEN [urls |-> MapDelete(S.urls, shortcode),
        analytics |-> MapDelete(S.analytics, shortcode),
        val |-> <<>>, evicted |-> {shortcode}]
  ELSE [urls |-> S.urls, analytics |-> S.analytics,
        val |-> <<S.urls[shortcode]>>, evicted |-> {}]

\* new Set(url.clicks.map(c => c.ip)).size
uniqueIps(clicks) == Cardinality({clicks[i].ip : i \in 1..Len(clicks)})

\* the click addClick builds from clickData
newClick(t, clickData) ==
  [timestamp |-> t,
   userAgent |-> OrEmpty(clickData.userAgent),
   ip |-> OrEmpty(clickData.ip),
   referer |-> OrEmpty(clickData.referer)]

\* variant: the click is put in front (unshift)
addClick_unshift(S, t, shortcode, clickData) ==
  IF shortcode \notin DOMAIN S.urls
  THEN [urls |-> S.urls, analytics |-> S.analytics, val |-> FALSE, evicted |-> {}]
  ELSE IF t > S.urls[shortcode].expiresAt
  THEN [urls |-> MapDelete(S.urls, shortcode),
        analytics |-> MapDelete(S.analytics, shortcode),
        val |-> FALSE, evicted |-> {shortcode}]
  ELSE LET url == S.urls[shortcode]
           click == newClick(t, clickData)
           clicks2 == <<click>> \o url.clicks
           an == S.analytics[shortcode]
       IN [urls |-> [S.urls EXCEPT ![shortcode].clicks = clicks2],
           analytics |-> [S.analytics EXCEPT ![shortcode] =
                            [totalClicks |-> an.totalClicks + 1,
                             uniqueClicks |-> uniqueIps(clicks2)]],
           val |-> TRUE, evicted |-> {}]

\* variant: the expiry check is left out
addClick_noExpiryCheck(S, t, shortcode, clickData) ==
  IF shortcode \notin DOMAIN S.urls
  THEN [urls |-> S.urls, analytics |-> S.analytics, val |-> FALSE, evicted |-> {}]
  ELSE LET clicks2 == Append(S.urls[shortcode].clicks, newClick(t, clickData))
       IN [urls |-> [S.urls EXCEPT ![shortcode].clicks = clicks2],
           analytics |-> [S.analytics EXCEPT ![shortcode] =
                            [totalClicks |-> S.analytics[shortcode].totalClicks + 1,
                             uniqueClicks |-> uniqueIps(clicks2)]],
           val |-> TRUE, evicted |-> {}]

\* variant: totalClicks is set to the number of distinct ips
addClick_countsUnique(S, t, shortcode, clickData) ==
  IF shortcode \notin DOMAIN S.urls
  THEN [urls |-> S.urls, analytics |-> S.analytics, val |-> FALSE, evicted |-> {}]
  ELSE IF t > S.urls[shortcode].expiresAt
  THEN [urls |-> MapDelete(S.urls, shortcode),
        analytics |-> MapDelete(S.analytics, shortcode),
        val |-> FALSE, evicted |-> {shortcode}]
  ELSE LET clicks2 == Append(S.urls[shortcode].clicks, newClick(t, clickData))
       IN [urls |-> [S.urls EXCEPT ![shortcode].clicks = clicks2],
           analytics |-> [S.analytics EXCEPT ![shortcode] =
                            [totalClicks |-> uniqueIps(clicks2),
                             uniqueClicks |-> uniqueIps(clicks2)]],
           val |-> TRUE, evicted |-> {}]

\* variant: uniqueClicks is incremented at every click
addClick_everyClickUnique(S, t, shortcode, clickData) ==
  IF shortcode \notin DOMAIN S.urls
  THEN [urls |-> S.urls, analytics |-> S.analytics, val |-> FALSE, evicted |-> {}]
  ELSE IF t > S.urls[shortcode].expiresAt
  THEN [urls |-> MapDelete(S.urls, shortcode),
        analytics |-> MapDelete(S.analytics, shortcode),
        val |-> FALSE, evicted |-> {shortcode}]
  ELSE LET clicks2 == Append(S.urls[shortcode].clicks, newClick(t, clickData))
       IN [urls |-> [S.urls EXCEPT ![shortcode].clicks = clicks2],
           analytics |-> [S.analytics EXCEPT ![shortcode] =
                            [totalClicks |-> S.analytics[shortcode].totalClicks + 1,
                             uniqueClicks |-> S.analytics[shortcode].uniqueClicks + 1]],
           val |-> TRUE, evicted |-> {}]

addClick(S, t, shortcode, clickData) ==
  IF shortcode \notin DOMAIN S.urls
  THEN [urls |-> S.urls, analytics |-> S.analytics, val |-> FALSE, evicted |-> {}]
  ELSE IF t > S.urls[shortcode].expiresAt
  THEN [urls |-> MapDelete(S.urls, shortcode),
        analytics |-> MapDelete(S.analytics, shortcode),
        val |-> FALSE, evicted |-> {shortcode}]
  ELSE LET url == S.urls[shortcode]
           click == newClick(t, clickData)
           clicks2 == Append(url.clicks, click)
           an == S.analytics[shortcode]
       IN [urls |-> [S.urls EXCEPT ![shortcode].clicks = clicks2],
           analytics |-> [S.analytics EXCEPT ![shortcode] =
                            [totalClicks |-> an.totalClicks + 1,
                             uniqueClicks |-> uniqueIps(clicks2)]],
           val |-> TRUE, evicted |-> {}]

\* the object getAnalytics returns for a stored entry
analyticsOf(shortcode, url, an) ==
  [shortcode |-> shortcode,
   originalUrl |-> url.originalUrl,
   createdAt |-> url.createdAt,
   expiresAt |-> url.expiresAt,
   totalClicks |-> an.totalClicks,
   uniqueClicks |-> an.uniqueClicks,
   clicks |-> url.clicks]

\* variant: the record counts as expired from the instant expiresAt on
getAnalytics_expiredAtExpiresAt(S, t, shortcode) ==
  IF shortcode \notin DOMAIN S.urls
  THEN [urls |-> S.urls, analytics |-> S.analytics, val |-> <<>>, evicted |-> {}]
  ELSE IF t >= S.urls[shortcode].expiresAt
  THEN [urls |-> MapDelete(S.urls, shortcode),
        analytics |-> MapDelete(S.analytics, shortcode),
        val |-> <<>>, evicted |-> {shortcode}]
  ELSE [urls |-> S.urls, analytics |-> S.analytics,
        val |-> << analyticsOf(shortcode, S.urls[shortcode], S.analytics[shortcode]) >>,
        evicted |-> {}]

\* variant: the expiry check is left out
getAnalytics_noExpiryCheck(S, t, shortcode) ==
  IF shortcode \notin DOMAIN S.urls
  THEN [urls |-> S.urls, analytics |-> S.analytics, val |-> <<>>, evicted |-> {}]
  ELSE [urls |-> S.urls, analytics |-> S.analytics,
        val |-> << analyticsOf(shortcode, S.urls[shortcode], S.analytics[shortcode]) >>,
        evicted |-> {}]

getAnalytics(S, t, shortcode) ==
  IF shortcode \notin DOMAIN S.urls
  THEN [urls |-> S.urls, analytics |-> S.analytics, val |-> <<>>, evicted |-> {}]
  ELSE IF t > S.urls[shortcode].expiresAt
  THEN [urls |-> MapDelete(S.urls, shortcode),
        analytics |-> MapDelete(S.analytics, shortcode),
        val |-> <<>>, evicted |-> {shortcode}]
  ELSE LET url == S.urls[shortcode]
           an == S.analytics[shortcode]
       IN [urls |-> S.urls, analytics |-> S.analytics,
           val |-> << analyticsOf(shortcode, url, an) >>,
           evicted |-> {}]

\* variant: the expired shortcodes are deleted from analytics only
cleanupExpired_keepsUrls(S, t) ==
  LET expired == {c \in DOMAIN S.urls : t > S.urls[c].expiresAt}
  IN [urls |-> S.urls,
      analytics |-> MapDeleteAll(S.analytics, expired),
      val |-> Cardinality(expired), evicted |-> expired]

\* variant: the expired shortcodes are deleted from urls only
cleanupExpired_keepsAnalytics(S, t) ==
  LET expired == {c \in DOMAIN S.urls : t > S.urls[c].expiresAt}
  IN [urls |-> MapDeleteAll(S.urls, expired),
      analytics |-> S.analytics,
      val |-> Cardinality(expired), evicted |-> expired]

cleanupExpired(S, t) ==
  LET expired == {c \in DOMAIN S.urls : t > S.urls[c].expiresAt}
  IN [urls |-> MapDeleteAll(S.urls, expired),
      analytics |-> MapDeleteAll(S.analytics, expired),
      val |-> Cardinality(expired), evicted |-> expired]

(***************************************************************************)
(* urlService.js                                                           *)
(***************************************************************************)
\* the alphabet of generateShortcode and of the pattern [a-zA-Z0-9]
AlnumChars ==
  {"a","b","c","d","e","f","g","h","i","j","k","l","m",
   "n","o","p","q","r","s","t","u","v","w","x","y","z",
   "A","B","C","D","E","F","G","H","I","J","K","L","M",
   "N","O","P","Q","R","S","T","U","V","W","X","Y","Z",
   "0","1","2","3","4","5","6","7","8","9"}

\* variant: /^[a-zA-Z0-9]{3,}$/, no upper bound on the length
matchesShortcodePattern_noUpperBound(code) ==
  /\ Len(code) >= 3
  /\ \A i \in 1..Len(code) : code[i] \in AlnumChars

\* /^[a-zA-Z0-9]{3,20}$/.test(code)
matchesShortcodePattern(code) ==
  /\ Len(code) >= 3
  /\ Len(code) <= 20
  /\ \A i \in 1..Len(code) : code[i] \in AlnumChars

ErrCustomFormat ==
  <<"Custom", "shortcode", "must", "be", "alphanumeric", "and", "between",
    "3-20", "characters">>

ErrCustomExists == <<"Custom", "shortcode", "already", "exists">>

ErrInvalidUrl == <<"Invalid", "URL", "format">>

ErrExhausted ==
  <<"Unable", "to", "generate", "unique", "shortcode", "after", "maximum",
    "attempts">>

\* String.prototype.includes, on words
includes(msg, phrase) ==
  \E i \in 1..(Len(msg) - Len(phrase) + 1) :
     SubSeq(msg, i, i + Len(phrase) - 1) = phrase

\* draws[k] is the k-th value generateShortcode() returns
RECURSIVE generateLoop(_, _, _, _, _)
generateLoop(S, t, draws, attempt, maxAttempts) ==
  IF attempt >= maxAttempts
  THEN [urls |-> S.urls, analytics |-> S.analytics, threw |-> ErrExhausted,
        val |-> <<>>, evicted |-> {}, attempts |-> attempt]
  ELSE LET shortcode == draws[attempt + 1]
           existing == findByShortcode(S, t, shortcode)
       IN IF existing.val = <<>>
          THEN [urls |-> existing.urls, analytics |-> existing.analytics,
                threw |-> NoError, val |-> <<shortcode>>,
                evicted |-> existing.evicted, attempts |-> attempt + 1]
          ELSE generateLoop(Store(existing.urls, existing.analytics), t, draws,
                            attempt + 1, maxAttempts)

\* variant: the first generated code is returned without asking the store
generateUniqueShortcode_firstDraw(S, t, draws) ==
  [urls |-> S.urls, analytics |-> S.analytics, threw |-> NoError,
   val |-> <<draws[1]>>, evicted |-> {}, attempts |-> 1]

\* variant: the loop gives up one attempt early
generateUniqueShortcode_nineAttempts(S, t, draws) == generateLoop(S, t, draws, 0, 9)

generateUniqueShortcode(S, t, draws) == generateLoop(S, t, draws, 0, 10)

\* url.parsed is what `new URL(url.text)` makes of the text, <<>> when it throws
validateAndNormalizeUrl(url) ==
  IF url.parsed = <<>> THEN [threw |-> ErrInvalidUrl, val |-> <<>>]
  ELSE IF url.parsed[1].protocol \notin {"http:", "https:"}
  THEN [threw |-> ErrInvalidUrl, val |-> <<>>]
  ELSE [threw |-> NoError, val |-> <<url.parsed[1].href>>]

\* a JavaScript number: the fraction num / den, den > 0
Number(num, den) == [num |-> num, den |-> den]

\* `new Date(ms)` drops the fraction of a millisecond
calculateExpiryDate(t, validityMinutes) ==
  t + ((validityMinutes.num * 60 * 1000) \div validityMinutes.den)

toISOString(date) == <<"ISO-8601", date>>

\* createShortUrl from `const expiresAt = ...` to its return
createShortUrlTail(S, t, normalizedUrl, validity, shortcode, evictedSoFar) ==
  LET expiresAt == calculateExpiryDate(t, validity)
      urlDoc == create(S, t, [originalUrl |-> normalizedUrl,
                              shortcode |-> shortcode,
                              expiresAt |-> <<expiresAt>>])
  IN IF urlDoc.threw # NoError
     THEN [urls |-> urlDoc.urls, analytics |-> urlDoc.analytics,
           threw |-> urlDoc.threw, val |-> <<>>, await |-> <<>>,
           evicted |-> evictedSoFar, created |-> {}, attempts |-> 0]
     ELSE [urls |-> urlDoc.urls, analytics |-> urlDoc.analytics,
           threw |-> NoError,
           val |-> << [shortcode |-> shortcode,
                       originalUrl |-> normalizedUrl,
                       shortUrl |-> <<"BASE_URL", "/", shortcode>>,
                       expiresAt |-> toISOString(expiresAt),
                       createdAt |-> toISOString(urlDoc.val[1].createdAt)] >>,
           await |-> <<>>, evicted |-> evictedSoFar, created |-> {shortcode},
           attempts |-> 0]

\* createShortUrl up to its return or to its suspension at
\* `await this.generateUniqueShortcode()` (await # <<>>)
createShortUrl(S, t, data, draws) ==
  LET validity == IF data.validity = <<>> THEN Number(30, 1) ELSE data.validity[1]
      normalized == validateAndNormalizeUrl(data.url[1])
      fail(err, S2, ev, n) ==
        [urls |-> S2.urls, analytics |-> S2.analytics, threw |-> err,
         val |-> <<>>, await |-> <<>>, evicted |-> ev, created |-> {},
         attempts |-> n]
  IN IF normalized.threw # NoError THEN fail(normalized.threw, S, {}, 0)
     ELSE IF data.shortcode # <<>> /\ data.shortcode[1] # <<>>
     THEN LET customShortcode == data.shortcode[1]
              existing == findByShortcode(S, t, customShortcode)
          IN IF ~matchesShortcodePattern(customShortcode)
             THEN fail(ErrCustomFormat, S, {}, 0)
             ELSE IF existing.val # <<>>
             THEN fail(ErrCustomExists, existing, existing.evicted, 0)
             ELSE createShortUrlTail(Store(existing.urls, existing.analytics), t,
                                     normalized.val[1], validity,
                                     customShortcode, existing.evicted)
     ELSE LET gen == generateUniqueShortcode(S, t, draws)
          IN IF gen.threw # NoError THEN fail(gen.threw, gen, gen.evicted, gen.attempts)
             ELSE [urls |-> gen.urls, analytics |-> gen.analytics,
                   threw |-> NoError, val |-> <<>>,
                   await |-> << [normalizedUrl |-> normalized.val[1],
                                 validity |-> validity,
                                 shortcode |-> gen.val[1]] >>,
                   evicted |-> gen.evicted, created |-> {},
                   attempts |-> gen.attempts]

(***************************************************************************)
(* urlController.js                                                        *)
(***************************************************************************)
\* the catch block of UrlController.createShortUrl
createErrorStatus(message) ==
  IF includes(message, <<"already", "exists">>) THEN 409
  ELSE IF includes(message, <<"shortcode">>) \/ includes(message, <<"URL">>) THEN 400
  ELSE 500

\* the checks before `await urlService.createShortUrl`: 0 when they pass
createRequestStatus(body) ==
  IF body.url = <<>> \/ body.url[1].text = "" THEN 400
  ELSE IF body.validity # <<>>
          /\ (body.validity[1].num <= 0
              \/ body.validity[1].num > 10080 * body.validity[1].den) THEN 400
  ELSE 0

(***************************************************************************)
(* History kept beside the program state, for the properties only:         *)
(*   everExpired  shortcodes for which a stored record has been past its   *)
(*                expiresAt at some instant                                *)
(*   staleSince   the same, forgotten when the shortcode is created anew   *)
(*   evictedBy    the operation that deleted the shortcode's last record,  *)
(*                "none" once the shortcode is created anew                *)
(*   okClicks     addClick calls that returned true since the shortcode's  *)
(*                record was created                                       *)
(***************************************************************************)
HistInit ==
  [everExpired |-> {}, staleSince |-> {},
   evictedBy |-> [c \in Codes |-> "none"],
   okClicks |-> [c \in Codes |-> 0]]

PastExpiry(u, t) == {c \in DOMAIN u : t > u[c].expiresAt}

HistAfter(h, op, evicted, created, clicked) ==
  [everExpired |-> h.everExpired,
   staleSince |-> h.staleSince \ created,
   evictedBy |-> [c \in Codes |->
                    IF c \in created THEN "none"
                    ELSE IF c \in evicted THEN op
                    ELSE h.evictedBy[c]],
   okClicks |-> [c \in Codes |->
                    IF c \in created THEN 0
                    ELSE IF c \in clicked THEN h.okClicks[c] + 1
                    ELSE h.okClicks[c]]]

\* `new Error(message)`
Error(message) == [message |-> message]

\* What the last call was and returned: val holds the returned value, the
\* thrown message or (addClick) the click data passed; n the HTTP status, the
\* count cleanupExpired returned or (create) the okClicks of the shortcode
\* before the call; reused the shortcode's evictedBy before the call.
\* alloc holds the values generateShortcode returned to a call of
\* generateUniqueShortcode and the number of loop iterations it made.
Ret(op, code, out, val, n, evicted, reused) ==
  [op |-> op, code |-> code, out |-> out, val |-> val, n |-> n,
   evicted |-> evicted, reused |-> reused, alloc |-> <<>>]

(***************************************************************************)
(* Initial state: module load, `new InMemoryStore()`.                      *)
(***************************************************************************)
Init ==
  /\ now = 0
  /\ urls = EmptyMap
  /\ analytics = EmptyMap
  /\ pending = <<>>
  /\ ret = Ret("init", <<>>, "", <<>>, 0, {}, "none")
  /\ hist = HistInit
  /\ redirects = <<>>
  /\ urls2 = EmptyMap
  /\ analytics2 = EmptyMap
  /\ ret2 = Ret("init", <<>>, "", <<>>, 0, {}, "none")
  /\ logQueue = <<>>
  /\ requestCounter = 0
  /\ flushTimer = TRUE
  /\ flushes = {}
  /\ server = {}
  /\ stopped = [state |-> "no", upTo |-> 0]

(***************************************************************************)
(* The clock moves on by one minute.                                       *)
(***************************************************************************)
Tick ==
  /\ now + MinuteMs <= MaxTicks * MinuteMs
  /\ now' = now + MinuteMs
  /\ UNCHANGED <<urls, analytics, pending>>
  /\ ret' = Ret("tick", <<>>, "", <<>>, 0, {}, "none")
  /\ hist' = [hist EXCEPT !.everExpired = @ \cup PastExpiry(urls, now + MinuteMs),
                          !.staleSince = @ \cup PastExpiry(urls, now + MinuteMs)]

(***************************************************************************)
(* Direct calls of the store's methods.                                    *)
(***************************************************************************)
Create(c, u, e) ==
  \E r \in {create(Store(urls, analytics), now,
                   [shortcode |-> c, originalUrl |-> u, expiresAt |-> e])} :
  LET made == IF r.threw = NoError THEN {c} ELSE {}
  IN /\ urls' = r.urls
     /\ analytics' = r.analytics
     /\ ret' = IF r.threw = NoError
               THEN Ret("create", c, "ok", r.val, hist.okClicks[c], r.evicted,
                        hist.evictedBy[c])
               ELSE Ret("create", c, "throws", <<Error(r.threw)>>, hist.okClicks[c],
                        r.evicted, hist.evictedBy[c])
     /\ hist' = HistAfter(hist, "create", r.evicted, made, {})
     /\ UNCHANGED <<now, pending>>

FindByShortcode(c) ==
  \E r \in {findByShortcode(Store(urls, analytics), now, c)} :
     /\ urls' = r.urls
     /\ analytics' = r.analytics
     /\ ret' = Ret("findByShortcode", c, IF r.val = <<>> THEN "null" ELSE "record",
                   r.val, 0, r.evicted, "none")
     /\ hist' = HistAfter(hist, "findByShortcode", r.evicted, {}, {})
     /\ UNCHANGED <<now, pending>>

RECURSIVE SumClicks(_, _)
SumClicks(u, S) ==
  IF S = {} THEN 0
  ELSE LET c == CHOOSE x \in S : TRUE
       IN Len(u[c].clicks) + SumClicks(u, S \ {c})

TotalClicks(u) == SumClicks(u, DOMAIN u)

AddClick(c, d) ==
  \E r \in {addClick(Store(urls, analytics), now, c, d)} :
     /\ TotalClicks(urls) < MaxClicks
     /\ urls' = r.urls
     /\ analytics' = r.analytics
     /\ ret' = Ret("addClick", c, IF r.val THEN "true" ELSE "false",
                   <<d>>, 0, r.evicted, "none")
     /\ hist' = HistAfter(hist, "addClick", r.evicted, {}, IF r.val THEN {c} ELSE {})
     /\ UNCHANGED <<now, pending>>

GetAnalytics(c) ==
  \E r \in {getAnalytics(Store(urls, analytics), now, c)} :
     /\ urls' = r.urls
     /\ analytics' = r.analytics
     /\ ret' = Ret("getAnalytics", c, IF r.val = <<>> THEN "null" ELSE "analytics",
                   r.val, 0, r.evicted, "none")
     /\ hist' = HistAfter(hist, "getAnalytics", r.evicted, {}, {})
     /\ UNCHANGED <<now, pending>>

CleanupExpired ==
  \E r \in {cleanupExpired(Store(urls, analytics), now)} :
     /\ urls' = r.urls
     /\ analytics' = r.analytics
     /\ ret' = Ret("cleanupExpired", <<>>, "count", <<>>, r.val, r.evicted, "none")
     /\ hist' = HistAfter(hist, "cleanupExpired", r.evicted, {}, {})
     /\ UNCHANGED <<now, pending>>

(***************************************************************************)
(* POST /shorturls: UrlController.createShortUrl up to its response, or up *)
(* to the suspension of urlService.createShortUrl at its await.            *)
(***************************************************************************)
RequestedCode(body) == IF body.shortcode = <<>> THEN <<>> ELSE body.shortcode[1]

PostShortUrls(body, draws) ==
  LET status == createRequestStatus(body)
      code == RequestedCode(body)
      prior == IF code \in Codes THEN hist.evictedBy[code] ELSE "none"
  IN IF status # 0
     THEN /\ ret' = Ret("POST /shorturls", code, "rejected", <<>>, status, {}, prior)
          /\ UNCHANGED <<now, urls, analytics, pending, hist>>
     ELSE \E r \in {createShortUrl(Store(urls, analytics), now, body, draws)} :
          /\ r.await # <<>> => Len(pending) < MaxPending
          /\ urls' = r.urls
          /\ analytics' = r.analytics
          /\ pending' = pending \o r.await
          /\ ret' = [ (IF r.await # <<>>
                     THEN Ret("POST /shorturls", code, "await", <<>>, 0, r.evicted, prior)
                     ELSE IF r.threw # NoError
                     THEN Ret("POST /shorturls", code, "error", <<Error(r.threw)>>,
                              createErrorStatus(r.threw), r.evicted, prior)
                     ELSE Ret("POST /shorturls", code, "created", r.val, 201,
                              r.evicted, prior))
                     EXCEPT !.alloc = IF r.attempts > 0
                                      THEN << [draws |-> draws,
                                               attempts |-> r.attempts] >>
                                      ELSE <<>> ]
          /\ hist' = HistAfter(hist, "findByShortcode", r.evicted, r.created, {})
          /\ UNCHANGED now

\* the continuation after `await this.generateUniqueShortcode()`
PostResume ==
  /\ pending # <<>>
  /\ \E r \in {createShortUrlTail(Store(urls, analytics), now,
                                   Head(pending).normalizedUrl,
                                   Head(pending).validity,
                                   Head(pending).shortcode, {})} :
     LET p == Head(pending)
     IN /\ urls' = r.urls
        /\ analytics' = r.analytics
        /\ pending' = Tail(pending)
        /\ ret' = IF r.threw # NoError
                  THEN Ret("POST /shorturls resumed", p.shortcode, "error", <<Error(r.threw)>>,
                           createErrorStatus(r.threw), {}, hist.evictedBy[p.shortcode])
                  ELSE Ret("POST /shorturls resumed", p.shortcode, "created", r.val,
                           201, {}, hist.evictedBy[p.shortcode])
        /\ hist' = HistAfter(hist, "create", {}, r.created, {})
        /\ UNCHANGED now

UrlInput(text, parsed) == [text |-> text, parsed |-> parsed]

ExampleUrl ==
  UrlInput("https://example.com",
           << [protocol |-> "https:", href |-> "https://example.com/"] >>)

OtherUrl ==
  UrlInput("https://other.com/",
           << [protocol |-> "https:", href |-> "https://other.com/"] >>)

NoDraws == [k \in 1..10 |-> CodeA]

\* requests that name a well-formed custom shortcode
CustomBodies ==
  { [url |-> <<u>>, validity |-> <<Number(v, 1)>>, shortcode |-> <<c>>] :
      u \in {ExampleUrl, OtherUrl}, v \in Validities, c \in Codes }

ExpiryInputs == {<<now + v * MinuteMs>> : v \in Validities}

Next ==
  \/ Tick /\ UNCHANGED <<http, twin, logging>>
  \/ \E c \in Codes, u \in Urls, e \in ExpiryInputs :
        Create(c, u, e) /\ UNCHANGED <<http, twin, logging>>
  \/ \E c \in Codes : FindByShortcode(c) /\ UNCHANGED <<http, twin, logging>>
  \/ \E c \in Codes, d \in ClickDatas : AddClick(c, d) /\ UNCHANGED <<http, twin, logging>>
  \/ \E c \in Codes : GetAnalytics(c) /\ UNCHANGED <<http, twin, logging>>
  \/ CleanupExpired /\ UNCHANGED <<http, twin, logging>>
  \/ \E body \in CustomBodies :
        PostShortUrls(body, NoDraws) /\ UNCHANGED <<http, twin, logging>>

Spec == Init /\ [][Next]_vars

(***************************************************************************)
(* Vocabulary of the properties.  In a step, the unprimed variables are    *)
(* the state a call found and ret' names the call and what it returned.    *)
(***************************************************************************)
Stored(c) == c \in DOMAIN urls

\* the record's expiresAt has passed
PastDue(c) == Stored(c) /\ now > urls[c].expiresAt

NotPastDue(c) == Stored(c) /\ ~(now > urls[c].expiresAt)

StoreUnchanged == urls' = urls /\ analytics' = analytics

RecordUnchanged(c) ==
  /\ c \in DOMAIN urls' /\ c \in DOMAIN analytics'
  /\ urls'[c] = urls[c]
  /\ analytics'[c] = analytics[c]

Gone(c) == c \notin DOMAIN urls' /\ c \notin DOMAIN analytics'

AlreadyExists == <<"already", "exists">>

(***************************************************************************)
(* C1: creating a shortcode that a record whose expiry has not passed      *)
(* occupies is rejected: InMemoryStore.create throws an error saying       *)
(* 'already exists', POST /shorturls naming it as custom shortcode (in an  *)
(* otherwise valid request) answers 409, and the store, the occupying      *)
(* record with its clicks and counters included, is left as it was.        *)
(***************************************************************************)
C1_LiveOccupantRejected ==
  [][ \A c \in Codes :
        (NotPastDue(c) /\ ret'.code = c) =>
          /\ ret'.op = "create" =>
               /\ ret'.out = "throws"
               /\ includes(ret'.val[1].message, AlreadyExists)
               /\ StoreUnchanged
          /\ ret'.op = "POST /shorturls" =>
               /\ ret'.n = 409
               /\ StoreUnchanged ]_vars

C1_Witness ==
  /\ ret.op = "POST /shorturls"
  /\ ret.n = 409
  /\ ret.code \in DOMAIN urls
  /\ Len(urls[ret.code].clicks) > 0

(***************************************************************************)
(* C2: a record whose expiresAt has passed and that nothing has evicted    *)
(* yet does not block store.create for its shortcode: the call succeeds     *)
(* and returns a fresh record with an empty click log.                     *)
(***************************************************************************)
C2_StaleOccupantDoesNotBlock ==
  [][ \A c \in Codes :
        (PastDue(c) /\ ret'.op = "create" /\ ret'.code = c) =>
          /\ ret'.out = "ok"
          /\ ret'.val[1].clicks = <<>>
          /\ urls'[c] = ret'.val[1]
          /\ urls'[c].createdAt = now ]_vars

(***************************************************************************)
(* C3: findByShortcode returns the stored record, and changes nothing,     *)
(* while the record's expiry has not passed; once it has passed it removes *)
(* the shortcode from urls and from analytics and returns null; for a      *)
(* shortcode not in the store it returns null and changes nothing.         *)
(***************************************************************************)
C3_FindByShortcode ==
  [][ \A c \in Codes :
        (ret'.op = "findByShortcode" /\ ret'.code = c) =>
          /\ ~Stored(c) => (ret'.val = <<>> /\ StoreUnchanged)
          /\ NotPastDue(c) => (ret'.val = <<urls[c]>> /\ StoreUnchanged)
          /\ PastDue(c) =>
               /\ ret'.val = <<>>
               /\ Gone(c)
               /\ \A d \in (DOMAIN urls) \ {c} : RecordUnchanged(d) ]_vars

C3_Witness ==
  /\ ret.op = "findByShortcode"
  /\ ret.val = <<>>
  /\ ret.evicted = {ret.code}
  /\ ret.code \notin DOMAIN urls
  /\ ret.code \notin DOMAIN analytics
  /\ DOMAIN urls # {}

(***************************************************************************)
(* C4 as claimed: a record is live iff now < expiresAt; from the instant   *)
(* now = expiresAt on, findByShortcode, addClick, getAnalytics and         *)
(* cleanupExpired treat it as expired, before that instant as live.        *)
(***************************************************************************)
TreatedAsLive(c) ==
  /\ ret'.op = "findByShortcode" /\ ret'.code = c => ret'.val = <<urls[c]>>
  /\ ret'.op = "addClick" /\ ret'.code = c => ret'.out = "true"
  /\ ret'.op = "getAnalytics" /\ ret'.code = c => ret'.out = "analytics"
  /\ ret'.op = "cleanupExpired" => c \in DOMAIN urls'

TreatedAsExpired(c) ==
  /\ ret'.op = "findByShortcode" /\ ret'.code = c => ret'.val = <<>> /\ Gone(c)
  /\ ret'.op = "addClick" /\ ret'.code = c => ret'.out = "false" /\ Gone(c)
  /\ ret'.op = "getAnalytics" /\ ret'.code = c => ret'.out = "null" /\ Gone(c)
  /\ ret'.op = "cleanupExpired" => Gone(c)

C4_LiveIffBeforeExpiresAt ==
  [][ \A c \in DOMAIN urls :
        /\ now < urls[c].expiresAt => TreatedAsLive(c)
        /\ now >= urls[c].expiresAt => TreatedAsExpired(c) ]_vars

(***************************************************************************)
(* C4 amended: a record is live iff now <= expiresAt; at the instant       *)
(* now = expiresAt the four operations still treat it as live, and they    *)
(* treat it as expired at every instant now > expiresAt.                   *)
(***************************************************************************)
C4_LiveUntilExpiresAtPassed ==
  [][ \A c \in DOMAIN urls :
        /\ now <= urls[c].expiresAt => TreatedAsLive(c)
        /\ now > urls[c].expiresAt => TreatedAsExpired(c) ]_vars

C4_Witness ==
  /\ ret.op = "addClick"
  /\ ret.out = "true"
  /\ ret.code \in DOMAIN urls
  /\ urls[ret.code].expiresAt = now

(***************************************************************************)
(* C5 as claimed: once now > expiresAt has held for a stored record, every *)
(* later findByShortcode, addClick and getAnalytics call for its shortcode *)
(* returns NotFound (null, false, null), whatever happens in between.      *)
(***************************************************************************)
Lookups == {"findByShortcode", "addClick", "getAnalytics"}

NotFoundOuts == {"null", "false"}

C5_ExpiredMeansNotFoundForever ==
  [][ \A c \in hist.everExpired :
        (ret'.op \in Lookups /\ ret'.code = c) => ret'.out \in NotFoundOuts ]_vars

(***************************************************************************)
(* C5 amended: once now > expiresAt has held for a stored record, every    *)
(* later findByShortcode, addClick and getAnalytics call for its shortcode *)
(* returns NotFound for as long as no new record has been created under    *)
(* that shortcode.                                                         *)
(***************************************************************************)
C5_ExpiredMeansNotFoundUntilCreatedAnew ==
  [][ \A c \in hist.staleSince :
        (ret'.op \in Lookups /\ ret'.code = c) => ret'.out \in NotFoundOuts ]_vars

C5_Witness ==
  /\ ret.op = "getAnalytics"
  /\ ret.out = "null"
  /\ ret.code \in hist.staleSince
  /\ ret.evicted = {}
  /\ hist.evictedBy[ret.code] # "none"

(***************************************************************************)
(* C6: once a shortcode's record has been evicted, by findByShortcode,     *)
(* addClick or getAnalytics finding it expired or by cleanupExpired, a     *)
(* create for that shortcode (directly, or through POST /shorturls)        *)
(* succeeds and the new record has an empty click log and zeroed           *)
(* counters.                                                               *)
(***************************************************************************)
Fresh(c) ==
  /\ c \in DOMAIN urls' /\ c \in DOMAIN analytics'
  /\ urls'[c].clicks = <<>>
  /\ urls'[c].createdAt = now
  /\ analytics'[c] = [totalClicks |-> 0, uniqueClicks |-> 0]

C6_ReuseAfterEviction ==
  [][ \A c \in Codes :
        (hist.evictedBy[c] # "none" /\ ret'.code = c) =>
          /\ ret'.op = "create" =>
               (ret'.out = "ok" /\ ret'.val = <<urls'[c]>> /\ Fresh(c))
          /\ ret'.op = "POST /shorturls" => (ret'.n = 201 /\ Fresh(c)) ]_vars

C6_Witness ==
  /\ ret.op = "create"
  /\ ret.out = "ok"
  /\ ret.reused = "cleanupExpired"
  /\ ret.n > 0
  /\ urls[ret.code].clicks = <<>>
  /\ analytics[ret.code].totalClicks = 0

(***************************************************************************)
(* C7: addClick returns true, appends one click and adds one to            *)
(* totalClicks exactly when the shortcode is stored and its expiry has not *)
(* passed; otherwise it returns false and no record's clicks or counters   *)
(* have changed, the one effect allowed being that the expired record of   *)
(* that shortcode is gone.                                                 *)
(***************************************************************************)
C7_AddClickAllOrNothing ==
  [][ \A c \in Codes :
        (ret'.op = "addClick" /\ ret'.code = c) =>
          /\ \A d \in (DOMAIN urls) \ {c} : RecordUnchanged(d)
          /\ IF NotPastDue(c)
             THEN /\ ret'.out = "true"
                  /\ c \in DOMAIN urls'
                  /\ Len(urls'[c].clicks) = Len(urls[c].clicks) + 1
                  /\ SubSeq(urls'[c].clicks, 1, Len(urls[c].clicks)) = urls[c].clicks
                  /\ analytics'[c].totalClicks = analytics[c].totalClicks + 1
             ELSE /\ ret'.out = "false"
                  /\ DOMAIN urls' = (DOMAIN urls) \ {c}
                  /\ DOMAIN analytics' = (DOMAIN analytics) \ {c} ]_vars

C7_Witness ==
  /\ ret.op = "addClick"
  /\ ret.out = "false"
  /\ ret.evicted = {ret.code}
  /\ \E d \in DOMAIN urls : Len(urls[d].clicks) > 0

(***************************************************************************)
(* C8: for every stored record totalClicks equals the length of its clicks *)
(* sequence, which equals the number of addClick calls that returned true  *)
(* for it since it was created; getAnalytics reports that number.          *)
(***************************************************************************)
C8_ClickCountIsLength ==
  /\ \A c \in DOMAIN urls :
        /\ c \in DOMAIN analytics
        /\ analytics[c].totalClicks = Len(urls[c].clicks)
        /\ Len(urls[c].clicks) = hist.okClicks[c]
  /\ (ret.op = "getAnalytics" /\ ret.out = "analytics") =>
        /\ ret.val[1].totalClicks = Len(ret.val[1].clicks)
        /\ ret.val[1].totalClicks = hist.okClicks[ret.code]

C8_Witness ==
  /\ ret.op = "getAnalytics"
  /\ ret.out = "analytics"
  /\ ret.val[1].totalClicks >= 2
  /\ hist.okClicks[ret.code] >= 2

(***************************************************************************)
(* C9: the uniqueClicks that getAnalytics returns equals the number of     *)
(* distinct ip values among the record's clicks, and a click whose data    *)
(* carries no ip is recorded with ip "".                                   *)
(***************************************************************************)
\* clicks whose ip no earlier click of the sequence carries
FirstOccurrences(clicks) ==
  {i \in 1..Len(clicks) : \A j \in 1..(i - 1) : clicks[j].ip # clicks[i].ip}

C9_UniqueClickers ==
  /\ [](\A c \in DOMAIN urls :
           analytics[c].uniqueClicks = Cardinality(FirstOccurrences(urls[c].clicks)))
  /\ []((ret.op = "getAnalytics" /\ ret.out = "analytics") =>
           ret.val[1].uniqueClicks = Cardinality(FirstOccurrences(ret.val[1].clicks)))
  /\ [][ (ret'.op = "addClick" /\ ret'.out = "true") =>
           LET clicks == urls'[ret'.code].clicks
           IN clicks[Len(clicks)].ip =
                IF ret'.val[1].ip = Undefined THEN "" ELSE ret'.val[1].ip ]_vars

C9_Witness ==
  /\ ret.op = "getAnalytics"
  /\ ret.out = "analytics"
  /\ Len(ret.val[1].clicks) = 2
  /\ ret.val[1].clicks[1].ip = ""
  /\ ret.val[1].clicks[2].ip = ""
  /\ ret.val[1].uniqueClicks = 1

(***************************************************************************)
(* C10: cleanupExpired removes from urls and from analytics exactly the    *)
(* records whose expiresAt has passed, returns how many they were and      *)
(* leaves every other record and its click data as they were; called       *)
(* again at the same instant it returns 0 and changes nothing.             *)
(***************************************************************************)
C10_CleanupExpired ==
  [][ ret'.op = "cleanupExpired" =>
        LET due == {c \in DOMAIN urls : now > urls[c].expiresAt}
        IN /\ DOMAIN urls' = (DOMAIN urls) \ due
           /\ DOMAIN analytics' = (DOMAIN analytics) \ due
           /\ ret'.n = Cardinality(due)
           /\ ret'.evicted = due
           /\ \A c \in (DOMAIN urls) \ due : RecordUnchanged(c)
           /\ ret.op = "cleanupExpired" => (ret'.n = 0 /\ StoreUnchanged) ]_vars

C10_Witness ==
  /\ ret.op = "cleanupExpired"
  /\ ret.n = 1
  /\ \E c \in DOMAIN urls : Len(urls[c].clicks) > 0
  /\ \A c \in DOMAIN urls : now <= urls[c].expiresAt

(***************************************************************************)
(* The same calls made on two stores: cleanupExpired runs on the first     *)
(* store only.  ret2 is what the second store returned to the last call.   *)
(***************************************************************************)
Create2(c, u, e) ==
  \E r \in {create(Store(urls2, analytics2), now,
                       [shortcode |-> c, originalUrl |-> u, expiresAt |-> e])} :
     /\ urls2' = r.urls
     /\ analytics2' = r.analytics
     /\ ret2' = IF r.threw = NoError
                THEN Ret("create", c, "ok", r.val, 0, r.evicted, "none")
                ELSE Ret("create", c, "throws", <<Error(r.threw)>>, 0, r.evicted, "none")

FindByShortcode2(c) ==
  \E r \in {findByShortcode(Store(urls2, analytics2), now, c)} :
     /\ urls2' = r.urls
     /\ analytics2' = r.analytics
     /\ ret2' = Ret("findByShortcode", c, IF r.val = <<>> THEN "null" ELSE "record",
                    r.val, 0, r.evicted, "none")

AddClick2(c, d) ==
  \E r \in {addClick(Store(urls2, analytics2), now, c, d)} :
     /\ urls2' = r.urls
     /\ analytics2' = r.analytics
     /\ ret2' = Ret("addClick", c, IF r.val THEN "true" ELSE "false",
                    <<d>>, 0, r.evicted, "none")

GetAnalytics2(c) ==
  \E r \in {getAnalytics(Store(urls2, analytics2), now, c)} :
     /\ urls2' = r.urls
     /\ analytics2' = r.analytics
     /\ ret2' = Ret("getAnalytics", c, IF r.val = <<>> THEN "null" ELSE "analytics",
                    r.val, 0, r.evicted, "none")

SweepUrls == {"https://example.com/"}

SweepClicks == {[ip |-> "10.0.0.1", userAgent |-> "curl", referer |-> "https://ref/"]}

NextSweep ==
  \/ Tick /\ UNCHANGED <<http, twin, logging>>
  \/ \E c \in Codes, u \in SweepUrls, e \in ExpiryInputs :
        Create(c, u, e) /\ Create2(c, u, e) /\ UNCHANGED <<http, logging>>
  \/ \E c \in Codes : FindByShortcode(c) /\ FindByShortcode2(c) /\ UNCHANGED <<http, logging>>
  \/ \E c \in Codes, d \in SweepClicks :
        AddClick(c, d) /\ AddClick2(c, d) /\ UNCHANGED <<http, logging>>
  \/ \E c \in Codes : GetAnalytics(c) /\ GetAnalytics2(c) /\ UNCHANGED <<http, logging>>
  \/ CleanupExpired /\ UNCHANGED <<http, twin, logging>>

SpecSweep == Init /\ [][NextSweep]_vars

StoreCalls == {"create", "findByShortcode", "addClick", "getAnalytics"}

\* C11: for every sequence of create, findByShortcode, addClick and
\* getAnalytics calls and clock advances, each call returns the same result
\* (value or thrown error) whether or not cleanupExpired calls are inserted
\* into the sequence.
C11_SweepsNeverChangeResults ==
  ret.op \in StoreCalls => /\ ret.out = ret2.out
                           /\ ret.val = ret2.val

(***************************************************************************)
(* POST /shorturls requests running concurrently: a request without a      *)
(* custom shortcode is suspended at `await this.generateUniqueShortcode()` *)
(* and is resumed after any number of other steps.                         *)
(***************************************************************************)
\* the first k values generateShortcode returns are `first`, the others `rest`
Draws(first, k, rest) == [i \in 1..10 |-> IF i <= k THEN first ELSE rest]

\* ten equal values, or one or nine equal values and then another
DrawSeqs == {Draws(c1, k, c2) : c1 \in Codes, c2 \in Codes, k \in {1, 9}}

\* requests that name no shortcode
RandomBodies ==
  { [url |-> <<u>>, validity |-> <<Number(v, 1)>>, shortcode |-> <<>>] :
      u \in {ExampleUrl}, v \in Validities }

\* requests that name a shortcode the random draws can also give
RivalBodies == {body \in CustomBodies : body.url = <<OtherUrl>>}

NextCreate ==
  \/ Tick /\ UNCHANGED <<http, twin, logging>>
  \/ \E body \in RandomBodies, draws \in DrawSeqs :
        PostShortUrls(body, draws) /\ UNCHANGED <<http, twin, logging>>
  \/ \E body \in RivalBodies :
        PostShortUrls(body, NoDraws) /\ UNCHANGED <<http, twin, logging>>
  \/ PostResume /\ UNCHANGED <<http, twin, logging>>
  \/ \E c \in Codes, d \in SweepClicks :
        pending # <<>> /\ AddClick(c, d) /\ UNCHANGED <<http, twin, logging>>
  \/ CleanupExpired /\ UNCHANGED <<http, twin, logging>>

SpecCreate == Init /\ [][NextCreate]_vars

PostOps == {"POST /shorturls", "POST /shorturls resumed"}

\* the shortcode a POST /shorturls step answered 201 for
Assigned(r) == IF r.op \in PostOps /\ r.out = "created"
               THEN {r.val[1].shortcode} ELSE {}

\* C12: under any interleaving of createShortUrl requests suspended at their
\* await, a shortcode whose record is live is assigned to no further request,
\* and no request changes that record's originalUrl, expiresAt or clicks.
C12_NoDoubleCreation ==
  [][\A c \in Codes :
        (NotPastDue(c) /\ ret'.op \in PostOps)
          => /\ c \notin Assigned(ret')
             /\ c \in DOMAIN urls' /\ urls'[c] = urls[c]
             /\ c \in DOMAIN analytics' /\ analytics'[c] = analytics[c]]_vars

\* a resumed request found the shortcode it had been given taken by a record
\* that another request created meanwhile and that has been clicked since
C12_Witness ==
  /\ ret.op = "POST /shorturls resumed"
  /\ ret.n = 409
  /\ ret.code \in DOMAIN urls
  /\ ~(now > urls[ret.code].expiresAt)
  /\ Len(urls[ret.code].clicks) > 0

\* the shortcode generateUniqueShortcode returned to the request suspended last
Allocated == pending'[Len(pending')].shortcode

\* a call of generateUniqueShortcode returned a shortcode in this step
AllocatorReturned == ret'.op = "POST /shorturls" /\ ret'.out = "await"

\* C13: whenever generateUniqueShortcode returns a code, the store holds no
\* live record for that code at the moment of return.
C13_AllocatedCodeNotLive ==
  [][AllocatorReturned
       => \/ Allocated \notin DOMAIN urls'
          \/ now' > urls'[Allocated].expiresAt]_vars

\* the allocator returned its tenth code after nine collisions with a live
\* record, which is still live
C13_Witness ==
  /\ ret.op = "POST /shorturls" /\ ret.out = "await"
  /\ ret.alloc # <<>> /\ ret.alloc[1].attempts = 10
  /\ ret.alloc[1].draws[1] \in DOMAIN urls
  /\ ~(now > urls[ret.alloc[1].draws[1]].expiresAt)

DefaultMaxAttempts == 10

\* the store reports the k-th generated code absent: no record, or one whose
\* expiresAt has passed
ReportedAbsent(draws, k) ==
  \/ draws[k] \notin DOMAIN urls
  \/ now > urls[draws[k]].expiresAt

FirstAbsent(draws) ==
  CHOOSE k \in 1..DefaultMaxAttempts :
     /\ ReportedAbsent(draws, k)
     /\ \A j \in 1..(k - 1) : ~ReportedAbsent(draws, j)

\* C14: generateUniqueShortcode always returns or fails: it returns the first
\* generated code that the store reports absent, after as many attempts as
\* codes were generated up to that one; when every generated code collides it
\* fails with ExhaustedAttempts after exactly maxAttempts (10) attempts.
C14_AllocatorOutcome ==
  [][(ret'.op = "POST /shorturls" /\ ret'.alloc # <<>>)
       => LET draws == ret'.alloc[1].draws
          IN IF \E k \in 1..DefaultMaxAttempts : ReportedAbsent(draws, k)
             THEN /\ ret'.out = "await"
                  /\ Allocated = draws[FirstAbsent(draws)]
                  /\ ret'.alloc[1].attempts = FirstAbsent(draws)
             ELSE /\ ret'.out = "error"
                  /\ ret'.val = <<Error(ErrExhausted)>>
                  /\ ret'.alloc[1].attempts = DefaultMaxAttempts
                  /\ pending' = pending]_vars

\* every one of the ten generated codes collided with a live record
C14_Witness ==
  /\ ret.op = "POST /shorturls" /\ ret.out = "error"
  /\ ret.val = <<Error(ErrExhausted)>>
  /\ ret.alloc # <<>> /\ ret.alloc[1].attempts = 10
  /\ \A k \in 1..10 : /\ ret.alloc[1].draws[k] \in DOMAIN urls
                      /\ ~(now > urls[ret.alloc[1].draws[k]].expiresAt)

\* C20: when the allocator fails with ExhaustedAttempts, POST /shorturls
\* answers 500 and no record is created.
C20_ExhaustedAnswers500 ==
  [][(/\ ret'.op = "POST /shorturls"
      /\ ret'.out = "error"
      /\ ret'.val = <<Error(ErrExhausted)>>)
       => (ret'.n = 500 /\ StoreUnchanged)]_vars

(***************************************************************************)
(* POST /shorturls with shortcode and validity values at and around the    *)
(* limits the handlers test.                                               *)
(***************************************************************************)
Repeat(ch, n) == [i \in 1..n |-> ch]

\* "ab", "abc", "ab_12", "abc12", 20 and 21 letters, and the empty string
FormatCodes ==
  { <<"a", "b">>, <<"a", "b", "c">>, <<"a", "b", "_", "1", "2">>,
    <<"a", "b", "c", "1", "2">>, Repeat("k", 20), Repeat("k", 21), <<>> }

FormatBodies ==
  { [url |-> <<ExampleUrl>>, validity |-> <<Number(1, 1)>>, shortcode |-> <<c>>] :
      c \in FormatCodes }

\* validity omitted, 0, 1/2, 1, 10080 and 10081
ValidityInputs ==
  { <<>>, <<Number(0, 1)>>, <<Number(1, 2)>>, <<Number(1, 1)>>,
    <<Number(10080, 1)>>, <<Number(10081, 1)>> }

ValidityBodies ==
  { [url |-> <<ExampleUrl>>, validity |-> v, shortcode |-> <<c>>] :
      v \in ValidityInputs, c \in Codes }

NextFormat ==
  \/ \E body \in FormatBodies :
        PostShortUrls(body, NoDraws) /\ UNCHANGED <<http, twin, logging>>
  \/ PostResume /\ UNCHANGED <<http, twin, logging>>

SpecFormat == Init /\ [][NextFormat]_vars

NextValidity ==
  \/ Tick /\ UNCHANGED <<http, twin, logging>>
  \/ \E body \in ValidityBodies :
        PostShortUrls(body, NoDraws) /\ UNCHANGED <<http, twin, logging>>

SpecValidity == Init /\ [][NextValidity]_vars

\* only characters of [a-zA-Z0-9], and 3 to 20 of them
WellFormed(code) ==
  /\ Len(code) \in 3..20
  /\ {code[i] : i \in 1..Len(code)} \subseteq AlnumChars

\* the request was answered 400 with the format message, and changed nothing
FormatRejected ==
  /\ ret'.out = "error"
  /\ ret'.val = <<Error(ErrCustomFormat)>>
  /\ ret'.n = 400
  /\ StoreUnchanged
  /\ pending' = pending

\* the request passed the format check; where it was answered 201 the record
\* created is stored under the shortcode asked for
FormatAccepted(code) ==
  /\ ~(ret'.out = "error" /\ ret'.val = <<Error(ErrCustomFormat)>>)
  /\ ret'.out = "created"
       => /\ ret'.n = 201
          /\ ret'.val[1].shortcode = code
          /\ code \in DOMAIN urls'
          /\ urls'[code].shortcode = code
          /\ code \notin DOMAIN urls \/ now > urls[code].expiresAt

\* C15 as claimed: a caller-supplied custom shortcode is accepted iff it
\* consists only of [a-zA-Z0-9] and is 3 to 20 long; any other supplied
\* shortcode is rejected with InvalidFormat (400) and no record is created;
\* an accepted one is the shortcode of the created record.
C15_SuppliedCodeAcceptedIffWellFormed ==
  [][\A body \in FormatBodies :
        (ret'.op = "POST /shorturls" /\ PostShortUrls(body, NoDraws))
          => IF WellFormed(body.shortcode[1])
             THEN FormatAccepted(body.shortcode[1])
             ELSE FormatRejected]_vars

\* C15 as the code has it: the same for every supplied shortcode that is not
\* the empty string; the empty string is taken as no custom shortcode, and
\* the request goes to generateUniqueShortcode for a generated one.
C15_NonEmptyCodeAcceptedIffWellFormed ==
  [][\A body \in FormatBodies :
        (ret'.op = "POST /shorturls" /\ PostShortUrls(body, NoDraws))
          => IF body.shortcode[1] = <<>>
             THEN /\ ret'.alloc # <<>>
                  /\ ret'.out = "await" => Allocated \in Codes
                  /\ ret'.out # "await" => ret'.val = <<Error(ErrExhausted)>>
             ELSE IF WellFormed(body.shortcode[1])
             THEN FormatAccepted(body.shortcode[1])
             ELSE FormatRejected]_vars

\* "ab_12" has been rejected while the store held the record of an accepted
\* 20-letter shortcode
C15_Witness ==
  /\ ret.op = "POST /shorturls"
  /\ ret.code = <<"a", "b", "_", "1", "2">>
  /\ ret.n = 400
  /\ Repeat("k", 20) \in DOMAIN urls
  /\ Repeat("k", 21) \notin DOMAIN urls

\* the number is in the range 1..10080
InRange(v) == v.den <= v.num /\ v.num <= 10080 * v.den

\* the request was answered 400 before the service was called
ValidityRejected ==
  /\ ret'.out = "rejected"
  /\ ret'.n = 400
  /\ StoreUnchanged
  /\ pending' = pending

\* C16: POST /shorturls accepts a supplied validity iff it is a number of
\* minutes in the range 1..10080: 0 and 10081 are rejected with 400 and create
\* no record, 10080 is accepted, and a request without validity gets a record
\* that expires 30 minutes after its creation.
C16_ValidityAcceptedIffInRange ==
  [][\A body \in ValidityBodies :
        (ret'.op = "POST /shorturls" /\ PostShortUrls(body, NoDraws))
          => LET code == body.shortcode[1]
             IN IF body.validity = <<>>
                THEN /\ ret'.out # "rejected"
                     /\ ret'.out = "created"
                          => urls'[code].expiresAt
                               = urls'[code].createdAt + 30 * MinuteMs
                ELSE IF InRange(body.validity[1])
                THEN /\ ret'.out # "rejected"
                     /\ ret'.out = "created"
                          => urls'[code].expiresAt
                               = calculateExpiryDate(urls'[code].createdAt,
                                                     body.validity[1])
                ELSE ValidityRejected]_vars

(***************************************************************************)
(* GET /:shortcode and GET /shorturls/:shortcode/analytics.                *)
(***************************************************************************)
getUrlByShortcode(S, t, shortcode) == findByShortcode(S, t, shortcode)

recordClick(S, t, shortcode, clickData) == addClick(S, t, shortcode, clickData)

getUrlAnalytics(S, t, shortcode) == getAnalytics(S, t, shortcode)

NotFoundBody == [error |-> "Not Found", message |-> "Short URL not found"]

GoneBody == [error |-> "Gone", message |-> "Short URL has expired"]

\* UrlController.getUrlAnalytics: the status and the body sent
analyticsResponse(S, t, shortcode) ==
  LET r == getUrlAnalytics(S, t, shortcode)
  IN [urls |-> r.urls, analytics |-> r.analytics, evicted |-> r.evicted,
      status |-> IF r.val = <<>> THEN 404 ELSE 200,
      body |-> IF r.val = <<>> THEN <<NotFoundBody>> ELSE r.val]

\* UrlController.redirectToUrl up to `await urlService.getUrlByShortcode`;
\* the answer to a null is sent in the same step
GetRedirect(c, d) ==
  \E r \in {getUrlByShortcode(Store(urls, analytics), now, c)} :
     /\ TotalClicks(urls) + Len(redirects) < MaxClicks
     /\ r.val # <<>> => Len(redirects) < MaxPending
     /\ urls' = r.urls
     /\ analytics' = r.analytics
     /\ redirects' = IF r.val = <<>> THEN redirects
                     ELSE Append(redirects, [shortcode |-> c,
                                             urlData |-> r.val[1],
                                             clickData |-> d])
     /\ ret' = IF r.val = <<>>
               THEN Ret("GET /:shortcode", c, "response", <<NotFoundBody>>, 404,
                        r.evicted, "none")
               ELSE Ret("GET /:shortcode", c, "await", <<>>, 0, r.evicted, "none")
     /\ hist' = HistAfter(hist, "findByShortcode", r.evicted, {}, {})
     /\ UNCHANGED <<now, pending>>

\* the rest of redirectToUrl: the handler reads the clock for its own expiry
\* check, and addClick reads it again dt later
RedirectResume(dt) ==
  /\ redirects # <<>>
  /\ now + dt <= MaxTicks * MinuteMs
  /\ \E r \in {recordClick(Store(urls, analytics), now + dt,
                            Head(redirects).shortcode, Head(redirects).clickData)} :
     LET q == Head(redirects)
         expired == now > q.urlData.expiresAt
         passed == [hist EXCEPT !.everExpired = @ \cup PastExpiry(urls, now + dt),
                                !.staleSince = @ \cup PastExpiry(urls, now + dt)]
     IN /\ redirects' = Tail(redirects)
        /\ IF expired
           THEN /\ dt = 0
                /\ ret' = Ret("GET /:shortcode resumed", q.shortcode, "response",
                              <<GoneBody>>, 410, {}, "none")
                /\ UNCHANGED <<now, urls, analytics, hist>>
           ELSE /\ now' = now + dt
                /\ urls' = r.urls
                /\ analytics' = r.analytics
                /\ ret' = Ret("GET /:shortcode resumed", q.shortcode, "redirect",
                              <<q.urlData.originalUrl>>, 302, r.evicted, "none")
                /\ hist' = HistAfter(passed, "addClick", r.evicted, {},
                                     IF r.val THEN {q.shortcode} ELSE {})
  /\ UNCHANGED pending

\* UrlController.getUrlAnalytics
GetUrlAnalytics(c) ==
  \E r \in {analyticsResponse(Store(urls, analytics), now, c)} :
     /\ urls' = r.urls
     /\ analytics' = r.analytics
     /\ ret' = Ret("GET /shorturls/:shortcode/analytics", c, "response", r.body,
                   r.status, r.evicted, "none")
     /\ hist' = HistAfter(hist, "getAnalytics", r.evicted, {}, {})
     /\ UNCHANGED <<now, pending, redirects>>

ClockGaps == {0, MinuteMs}

NextGet ==
  \/ Tick /\ UNCHANGED <<http, twin, logging>>
  \/ \E body \in RivalBodies :
        PostShortUrls(body, NoDraws) /\ UNCHANGED <<http, twin, logging>>
  \/ \E c \in Codes, d \in SweepClicks : GetRedirect(c, d) /\ UNCHANGED <<twin, logging>>
  \/ \E dt \in ClockGaps : RedirectResume(dt) /\ UNCHANGED <<twin, logging>>
  \/ \E c \in Codes : GetUrlAnalytics(c) /\ UNCHANGED <<twin, logging>>
  \/ CleanupExpired /\ UNCHANGED <<http, twin, logging>>

SpecGet == Init /\ [][NextGet]_vars

\* the lookups of the store and the analytics request, with no request
\* suspended
NextLookup ==
  \/ Tick /\ UNCHANGED <<http, twin, logging>>
  \/ \E body \in RivalBodies :
        PostShortUrls(body, NoDraws) /\ UNCHANGED <<http, twin, logging>>
  \/ \E c \in Codes : FindByShortcode(c) /\ UNCHANGED <<http, twin, logging>>
  \/ \E c \in Codes, d \in SweepClicks : AddClick(c, d) /\ UNCHANGED <<http, twin, logging>>
  \/ \E c \in Codes : GetAnalytics(c) /\ UNCHANGED <<http, twin, logging>>
  \/ \E c \in Codes : GetUrlAnalytics(c) /\ UNCHANGED <<twin, logging>>

SpecLookup == Init /\ [][NextLookup]_vars

\* no record has ever been created for the shortcode
NeverCreated(c) == ~Stored(c) /\ hist.evictedBy[c] = "none"

\* a record was created for the shortcode and its expiresAt has passed,
\* whether the record is still stored or has been deleted since
CreatedAndExpired(c) ==
  \/ PastDue(c)
  \/ ~Stored(c) /\ hist.evictedBy[c] # "none"

\* C17: GET /:shortcode for a shortcode whose record was created and has
\* since expired answers 410 Gone; for a shortcode that was never created it
\* answers 404.
C17_ExpiredAnswers410 ==
  [][\A c \in Codes :
        (ret'.op = "GET /:shortcode" /\ ret'.code = c)
          => /\ CreatedAndExpired(c) => ret'.n = 410
             /\ NeverCreated(c) => ret'.n = 404]_vars

\* C18: every GET /:shortcode that answers 302 has appended exactly one click
\* to the record its lookup found, whatever other requests, sweeps and clock
\* advances come between the lookup and recordClick; a click recording that
\* fails is never passed over in silence.
C18_RedirectCountsOneClick ==
  [][(ret'.op = "GET /:shortcode resumed" /\ ret'.n = 302)
       => LET q == Head(redirects)
              c == q.shortcode
          IN /\ c \in DOMAIN urls /\ c \in DOMAIN urls'
             /\ urls'[c].createdAt = q.urlData.createdAt
             /\ urls'[c].clicks = Append(urls[c].clicks, newClick(now', q.clickData))
             /\ analytics'[c].totalClicks = analytics[c].totalClicks + 1]_vars

\* a store in which no shortcode was ever created
Blank == Store(EmptyMap, EmptyMap)

\* C19: what the store answers does not tell an expired shortcode from one
\* that never existed: findByShortcode, addClick and getAnalytics return for a
\* stored-but-expired shortcode the value they return for a shortcode never
\* created (null, false, null), and GET /shorturls/:shortcode/analytics
\* answers 404 with the same body in both cases.
C19_ExpiredLooksNeverCreated ==
  [][\A c \in Codes :
        (ret'.code = c /\ (PastDue(c) \/ NeverCreated(c)))
          => /\ ret'.op = "findByShortcode"
                  => /\ ret'.val = findByShortcode(Blank, now, c).val
                     /\ ret'.out = "null"
             /\ ret'.op = "addClick"
                  => /\ (ret'.out = "true") = addClick(Blank, now, c, ret'.val[1]).val
                     /\ ret'.out = "false"
             /\ ret'.op = "getAnalytics"
                  => /\ ret'.val = getAnalytics(Blank, now, c).val
                     /\ ret'.out = "null"
             /\ ret'.op = "GET /shorturls/:shortcode/analytics"
                  => /\ ret'.n = analyticsResponse(Blank, now, c).status
                     /\ ret'.val = analyticsResponse(Blank, now, c).body
                     /\ ret'.n = 404]_vars

\* the analytics of a shortcode whose record was stored and expired, and had
\* been clicked, have been asked for over HTTP and answered 404
C19_Witness ==
  /\ ret.op = "GET /shorturls/:shortcode/analytics"
  /\ ret.n = 404
  /\ ret.evicted = {ret.code}
  /\ hist.okClicks[ret.code] > 0

(***************************************************************************)
(* Creation when the clock moves on between the reads of it: UrlService    *)
(* reads it in calculateExpiryDate and the store reads it again for        *)
(* createdAt; the store's default expiry and createdAt are two reads too.  *)
(***************************************************************************)
\* store.create, the clock moving on by dt between `Date.now()` of the
\* default expiresAt and `new Date()` of createdAt
createClocked(S, t, dt, data) ==
  IF data.shortcode \in DOMAIN S.urls
  THEN [urls |-> S.urls, analytics |-> S.analytics,
        threw |-> ErrStoreExists, val |-> <<>>, evicted |-> {}]
  ELSE LET urlEntry ==
             [id |-> data.shortcode,
              shortcode |-> data.shortcode,
              originalUrl |-> data.originalUrl,
              expiresAt |-> IF data.expiresAt = <<>>
                            THEN t + 30 * 60 * 1000
                            ELSE data.expiresAt[1],
              createdAt |-> t + dt,
              clicks |-> <<>>]
       IN [urls |-> MapSet(S.urls, data.shortcode, urlEntry),
           analytics |-> MapSet(S.analytics, data.shortcode,
                                [totalClicks |-> 0, uniqueClicks |-> 0]),
           threw |-> NoError, val |-> <<urlEntry>>, evicted |-> {}]

\* createShortUrl from `const expiresAt = ...` to its return, the clock moving
\* on by dt between calculateExpiryDate and inMemoryStore.create
createShortUrlTailClocked(S, t, dt, normalizedUrl, validity, shortcode) ==
  LET expiresAt == calculateExpiryDate(t, validity)
      urlDoc == createClocked(S, t + dt, 0, [originalUrl |-> normalizedUrl,
                                             shortcode |-> shortcode,
                                             expiresAt |-> <<expiresAt>>])
  IN IF urlDoc.threw # NoError
     THEN [urls |-> urlDoc.urls, analytics |-> urlDoc.analytics,
           threw |-> urlDoc.threw, val |-> <<>>, created |-> {}]
     ELSE [urls |-> urlDoc.urls, analytics |-> urlDoc.analytics,
           threw |-> NoError,
           val |-> << [shortcode |-> shortcode,
                       originalUrl |-> normalizedUrl,
                       shortUrl |-> <<"BASE_URL", "/", shortcode>>,
                       expiresAt |-> toISOString(expiresAt),
                       createdAt |-> toISOString(urlDoc.val[1].createdAt)] >>,
           created |-> {shortcode}]

\* the clock moved on to t
HistAt(h, u, t) ==
  [h EXCEPT !.everExpired = @ \cup PastExpiry(u, t),
            !.staleSince = @ \cup PastExpiry(u, t)]

\* inMemoryStore.create without an expiresAt
CreateDefault(c, u, dt) ==
  /\ now + dt <= MaxTicks * MinuteMs
  /\ \E r \in {createClocked(Store(urls, analytics), now, dt,
                             [shortcode |-> c, originalUrl |-> u,
                              expiresAt |-> <<>>])} :
     LET made == IF r.threw = NoError THEN {c} ELSE {}
     IN /\ urls' = r.urls
        /\ analytics' = r.analytics
        /\ now' = now + dt
        /\ ret' = IF r.threw = NoError
                  THEN Ret("create", c, "ok", r.val, hist.okClicks[c], r.evicted,
                           hist.evictedBy[c])
                  ELSE Ret("create", c, "throws", <<Error(r.threw)>>,
                           hist.okClicks[c], r.evicted, hist.evictedBy[c])
        /\ hist' = HistAfter(HistAt(hist, urls, now + dt), "create", r.evicted,
                             made, {})
        /\ UNCHANGED pending

\* the continuation after `await this.generateUniqueShortcode()`
PostResumeClocked(dt) ==
  /\ pending # <<>>
  /\ now + dt <= MaxTicks * MinuteMs
  /\ \E r \in {createShortUrlTailClocked(Store(urls, analytics), now, dt,
                                          Head(pending).normalizedUrl,
                                          Head(pending).validity,
                                          Head(pending).shortcode)} :
     LET p == Head(pending)
     IN /\ urls' = r.urls
        /\ analytics' = r.analytics
        /\ pending' = Tail(pending)
        /\ now' = now + dt
        /\ ret' = IF r.threw # NoError
                  THEN Ret("POST /shorturls resumed", p.shortcode, "error",
                           <<Error(r.threw)>>, createErrorStatus(r.threw), {},
                           hist.evictedBy[p.shortcode])
                  ELSE Ret("POST /shorturls resumed", p.shortcode, "created",
                           r.val, 201, {}, hist.evictedBy[p.shortcode])
        /\ hist' = HistAfter(HistAt(hist, urls, now + dt), "create", {},
                             r.created, {})

\* a validity of half a millisecond: 1/120000 minute
TinyValidity == Number(1, 120000)

\* requests with a validity the controller accepts, with and without a shortcode
ExpiryBodies ==
  { [url |-> <<ExampleUrl>>, validity |-> <<v>>, shortcode |-> c] :
      v \in {Number(1, 1), TinyValidity}, c \in {<<>>, <<CodeA>>} }

ExpiryDraws == {Draws(CodeB, 10, CodeB)}

NextExpiry ==
  \/ Tick /\ UNCHANGED <<http, twin, logging>>
  \/ \E body \in ExpiryBodies, draws \in ExpiryDraws :
        PostShortUrls(body, draws) /\ UNCHANGED <<http, twin, logging>>
  \/ \E dt \in ClockGaps : PostResumeClocked(dt) /\ UNCHANGED <<http, twin, logging>>
  \/ \E c \in Codes, u \in Urls, dt \in ClockGaps :
        CreateDefault(c, u, dt) /\ UNCHANGED <<http, twin, logging>>
  \/ \E c \in Codes : FindByShortcode(c) /\ UNCHANGED <<http, twin, logging>>

SpecExpiry == Init /\ [][NextExpiry]_vars

\* C21: in every reachable state every stored record has expiresAt > createdAt,
\* whether it was created through createShortUrl with an accepted validity or
\* by store.create with its default expiry, and whatever the clock did
\* between the computation of expiresAt and the stamping of createdAt.
C21_ExpiresAfterCreated ==
  \A c \in DOMAIN urls : urls[c].expiresAt > urls[c].createdAt

(***************************************************************************)
(* Creation followed by a lookup.                                          *)
(***************************************************************************)
\* requests with the shortest and the longest validity of the range
RoundTripBodies ==
  { [url |-> <<u>>, validity |-> <<Number(v, 1)>>, shortcode |-> <<c>>] :
      u \in {ExampleUrl, OtherUrl}, v \in {1, 10080}, c \in Codes }

NextRoundTrip ==
  \/ Tick /\ UNCHANGED <<http, twin, logging>>
  \/ \E c \in Codes, u \in Urls, e \in ExpiryInputs :
        Create(c, u, e) /\ UNCHANGED <<http, twin, logging>>
  \/ \E body \in RoundTripBodies :
        PostShortUrls(body, NoDraws) /\ UNCHANGED <<http, twin, logging>>
  \/ \E c \in Codes : FindByShortcode(c) /\ UNCHANGED <<http, twin, logging>>

SpecRoundTrip == Init /\ [][NextRoundTrip]_vars

\* the last call created a record, through the store or through the service
JustCreated ==
  \/ ret.op = "create" /\ ret.out = "ok"
  \/ ret.op = "POST /shorturls" /\ ret.out = "created"

\* C22: a successful create (store.create, or createShortUrl with a custom
\* shortcode) followed immediately by findByShortcode of the same shortcode
\* returns a record whose originalUrl, createdAt and expiresAt are those
\* returned by the create and whose clicks sequence is empty.
C22_CreateThenFind ==
  [][(JustCreated /\ ret'.op = "findByShortcode" /\ ret'.code = ret.code)
       => /\ ret'.out = "record"
          /\ ret'.val[1].clicks = <<>>
          /\ ret'.val[1].originalUrl = ret.val[1].originalUrl
          /\ ret.op = "create"
               => /\ ret'.val[1].createdAt = ret.val[1].createdAt
                  /\ ret'.val[1].expiresAt = ret.val[1].expiresAt
          /\ ret.op = "POST /shorturls"
               => /\ toISOString(ret'.val[1].createdAt) = ret.val[1].createdAt
                  /\ toISOString(ret'.val[1].expiresAt) = ret.val[1].expiresAt]_vars

\* findByShortcode has returned a record at the clock value of its creation
C22_Witness ==
  /\ ret.op = "findByShortcode"
  /\ ret.out = "record"
  /\ ret.val[1].createdAt = now
  /\ ret.val[1].expiresAt > now
  /\ now > 0

(***************************************************************************)
(* The outcomes of a request that names no shortcode.                      *)
(***************************************************************************)
\* C27: a createShortUrl request that names no shortcode ends only with a
\* shortcode assigned or with the allocator's attempts exhausted: the
\* store.create that follows generateUniqueShortcode never fails with
\* 'Shortcode already exists', whatever other create requests run between the
\* allocator's findByShortcode check and the insert.
C27_RandomPathAssignedOrExhausted ==
  [][/\ (ret'.op = "POST /shorturls" /\ ret'.code = <<>> /\ ret'.out = "error")
          => ret'.val = <<Error(ErrExhausted)>>
     /\ ret'.op = "POST /shorturls resumed"
          => /\ ret'.out = "created"
             /\ ret'.val[1].shortcode \in DOMAIN urls'
             /\ ret'.val[1].shortcode \notin DOMAIN urls
                  \/ now > urls[ret'.val[1].shortcode].expiresAt]_vars

(***************************************************************************)
(* What a stored record goes through between its creation and its eviction.*)
(***************************************************************************)
\* the record of c is stored before and after the step and was not evicted
\* and created anew within it
Kept(c) == Stored(c) /\ c \in DOMAIN urls' /\ c \notin ret'.evicted

\* the step is an addClick of c that returned true
Clicked(c) == ret'.op = "addClick" /\ ret'.code = c /\ ret'.out = "true"

\* C28: a stored record is immutable except for click growth: between its
\* creation and its eviction no store operation changes its shortcode,
\* originalUrl, createdAt or expiresAt, and its clicks are append-only: a
\* successful addClick adds exactly one element at the end, and nothing else
\* alters, removes or adds a click.
C28_ImmutableButClicks ==
  [][\A c \in Codes :
        Kept(c)
          => /\ urls'[c].id = urls[c].id
             /\ urls'[c].shortcode = urls[c].shortcode
             /\ urls'[c].originalUrl = urls[c].originalUrl
             /\ urls'[c].createdAt = urls[c].createdAt
             /\ urls'[c].expiresAt = urls[c].expiresAt
             /\ IF Clicked(c)
                THEN /\ Len(urls'[c].clicks) = Len(urls[c].clicks) + 1
                     /\ SubSeq(urls'[c].clicks, 1, Len(urls[c].clicks))
                          = urls[c].clicks
                     /\ urls'[c].clicks[Len(urls'[c].clicks)]
                          = newClick(now, ret'.val[1])
                ELSE urls'[c].clicks = urls[c].clicks]_vars

\* a second click, different from the first, has been added to a record
C28_Witness ==
  /\ ret.op = "addClick"
  /\ ret.out = "true"
  /\ Len(urls[ret.code].clicks) = 2
  /\ urls[ret.code].clicks[1].ip # urls[ret.code].clicks[2].ip

\* C29: in every reachable state the urls map and the analytics map hold
\* exactly the same set of shortcodes: an operation that finds a record in
\* urls finds its analytics entry, and every eviction removes both.
C29_SameShortcodes == DOMAIN urls = DOMAIN analytics

\* a shortcode has been evicted by a lookup while another one is stored
C29_Witness ==
  /\ ret.evicted # {}
  /\ ret.op \in {"findByShortcode", "addClick", "getAnalytics", "cleanupExpired"}
  /\ DOMAIN urls # {}
  /\ \A c \in ret.evicted : c \notin DOMAIN urls /\ c \notin DOMAIN analytics

(***************************************************************************)
(* The logging middleware (LoggingMiddleware): Log puts an entry in         *)
(* logQueue; flushLogs takes the whole queue, posts it to /logs and, when   *)
(* sendLogsWithRetry gives up, puts it back in front of the queue.  A call  *)
(* of flushLogs is suspended while its POST or its retry delay is pending;  *)
(* Log, the flush timer and other flushLogs calls run meanwhile.            *)
(***************************************************************************)
\* Log calls made
MaxLogs == 3
\* flushLogs calls suspended at any one time
MaxFlushes == 2

\* config.batchSize, as passed to createLogger
batchSize == 2
\* config.retryAttempts, the default
retryAttempts == 3

Levels == {"info", "fatal"}

\* the entry Log builds; requestId carries the value of ++requestCounter
LogEntry(n, level) == [requestId |-> n, level |-> level]

\* flushLogs up to its await: the queue left and the batch posted, if any
flushLogs(queue) ==
  IF Len(queue) = 0
  THEN [logQueue |-> queue, sent |-> <<>>]
  ELSE [logQueue |-> <<>>, sent |-> <<queue>>]

processLogEntry(queue, logEntry) ==
  LET pushed == Append(queue, logEntry)
  IN IF logEntry.level = "fatal" THEN flushLogs(pushed)
     ELSE IF Len(pushed) >= batchSize THEN flushLogs(pushed)
     ELSE [logQueue |-> pushed, sent |-> <<>>]

\* what sendLogsWithRetry does when the POST of its attempt is answered
sendLogsWithRetry(attempt, rejected) ==
  IF ~rejected THEN "return"
  ELSE IF attempt < retryAttempts THEN "retry"
  ELSE "throw"

\* variant: the batch is dropped
requeue_drops(queue, logsToSend) == queue

\* flushLogs' catch: `this.logQueue.unshift(...logsToSend)`
requeue(queue, logsToSend) == logsToSend \o queue

\* a flushLogs call suspended in sendLogsWithRetry: at the POST of its
\* attempt ("post") or at the delay before the next one ("delay")
\* awaited: shutdown() awaits the call
Flush(logs, awaited) ==
  [logs |-> logs, attempt |-> 1, phase |-> "post", awaited |-> awaited]

Started(sent, awaited) == {Flush(sent[i], awaited) : i \in 1..Len(sent)}

\* shutdown()'s promise resolves when the flushLogs call it awaits does
Resolved(f) ==
  IF f.awaited THEN [stopped EXCEPT !.state = "resolved"] ELSE stopped

\* logger.Log(stack, level, package, message)
LogCall(level) ==
  /\ requestCounter < MaxLogs
  /\ \E r \in {processLogEntry(logQueue, LogEntry(requestCounter + 1, level))} :
       /\ r.sent # <<>> => Cardinality(flushes) < MaxFlushes
       /\ logQueue' = r.logQueue
       /\ requestCounter' = requestCounter + 1
       /\ flushes' = flushes \cup Started(r.sent, FALSE)
       /\ UNCHANGED <<flushTimer, server, stopped>>

\* flushLogs called by the interval timer or by the application
FlushCall(caller) ==
  /\ caller = "timer" => flushTimer
  /\ \E r \in {flushLogs(logQueue)} :
       /\ r.sent # <<>> => Cardinality(flushes) < MaxFlushes
       /\ logQueue' = r.logQueue
       /\ flushes' = flushes \cup Started(r.sent, FALSE)
       /\ UNCHANGED <<requestCounter, flushTimer, server, stopped>>

\* the POST of a suspended flushLogs call is answered 2xx
PostResolved(f) ==
  /\ f.phase = "post"
  /\ sendLogsWithRetry(f.attempt, FALSE) = "return"
  /\ server' = server \cup {f.logs}
  /\ flushes' = flushes \ {f}
  /\ stopped' = Resolved(f)
  /\ UNCHANGED <<logQueue, requestCounter, flushTimer>>

\* the POST fails (no answer within the timeout, or an answer that is not 2xx)
PostRejected(f) ==
  /\ f.phase = "post"
  /\ \E next \in {sendLogsWithRetry(f.attempt, TRUE)} :
       IF next = "retry"
       THEN /\ flushes' = (flushes \ {f}) \cup {[f EXCEPT !.phase = "delay"]}
            /\ UNCHANGED <<logQueue, requestCounter, flushTimer, server, stopped>>
       ELSE /\ logQueue' = requeue(logQueue, f.logs)
            /\ flushes' = flushes \ {f}
            /\ stopped' = Resolved(f)
            /\ UNCHANGED <<requestCounter, flushTimer, server>>

\* `await this.delay(...)` is over: the next attempt posts the batch again
DelayElapsed(f) ==
  /\ f.phase = "delay"
  /\ flushes' = (flushes \ {f})
                  \cup {[f EXCEPT !.phase = "post", !.attempt = f.attempt + 1]}
  /\ UNCHANGED <<logQueue, requestCounter, flushTimer, server, stopped>>

\* logger.shutdown(), called once
ShutdownCall ==
  /\ stopped.state = "no"
  /\ \E r \in {flushLogs(logQueue)} :
       /\ r.sent # <<>> => Cardinality(flushes) < MaxFlushes
       /\ flushTimer' = FALSE
       /\ logQueue' = r.logQueue
       /\ flushes' = flushes \cup Started(r.sent, TRUE)
       /\ stopped' = [state |-> IF r.sent = <<>> THEN "resolved" ELSE "waiting",
                      upTo |-> requestCounter]
       /\ UNCHANGED <<requestCounter, server>>

NextLogging ==
  \/ \E level \in Levels : LogCall(level) /\ UNCHANGED <<shortener, http, twin>>
  \/ \E caller \in {"timer", "manual"} :
        FlushCall(caller) /\ UNCHANGED <<shortener, http, twin>>
  \/ \E f \in flushes : PostResolved(f) /\ UNCHANGED <<shortener, http, twin>>
  \/ \E f \in flushes : PostRejected(f) /\ UNCHANGED <<shortener, http, twin>>
  \/ \E f \in flushes : DelayElapsed(f) /\ UNCHANGED <<shortener, http, twin>>
  \/ ShutdownCall /\ UNCHANGED <<shortener, http, twin>>

SpecLogging == Init /\ [][NextLogging]_vars

(***************************************************************************)
(* Vocabulary of the logger's properties.                                  *)
(***************************************************************************)
Range(seq) == {seq[i] : i \in DOMAIN seq}

\* the positions of entry n in a sequence of entries
Positions(seq, n) == {i \in DOMAIN seq : seq[i].requestId = n}

\* every place that holds entry n: a position of the queue, of the batch of a
\* suspended flushLogs call, or of a batch the server has answered 2xx for
Holders(n) ==
  {<<"queue", i>> : i \in Positions(logQueue, n)}
    \cup UNION {{<<"flush", f, i>> : i \in Positions(f.logs, n)} : f \in flushes}
    \cup UNION {{<<"server", b, i>> : i \in Positions(b, n)} : b \in server}

\* the requestIds of the entries delivered to the server
Delivered == UNION {{e.requestId : e \in Range(b)} : b \in server}

\* the entries of a sequence are in the order in which Log accepted them
Ordered(seq) ==
  \A i \in DOMAIN seq, j \in DOMAIN seq :
     i < j => seq[i].requestId < seq[j].requestId

\* the step issues a POST of the batch of f: f's call has just started, or
\* has just begun its next attempt
Posts(f) == f \in flushes' /\ f \notin flushes /\ f.phase = "post"

\* the step is the failure of f's POST after which sendLogsWithRetry throws
GaveUp(f) == PostRejected(f) /\ sendLogsWithRetry(f.attempt, TRUE) = "throw"

\* C23: when logger.shutdown() resolves, the flush timer is stopped and every
\* entry logged before shutdown was called has been sent to the server: none
\* of them is in the queue or still in flight, also when another flush was in
\* progress or a send failed.
C23_ShutdownFlushesEverything ==
  stopped.state = "resolved"
    => /\ ~flushTimer
       /\ \A n \in 1..stopped.upTo : n \in Delivered

\* C24: every entry Log has accepted is in exactly one of the pending queue,
\* the batch of a flush in flight and the batches delivered to the server;
\* a batch whose send fails for good is put back in the queue, and after a
\* successful send the entries of the batch are not in the queue.
C24_NoEntryLost ==
  [][/\ \A n \in 1..requestCounter' : Cardinality(Holders(n)') = 1
     /\ \A f \in flushes :
          /\ GaveUp(f) => Range(f.logs) \subseteq Range(logQueue')
          /\ PostResolved(f)
               => /\ Range(f.logs) \cap Range(logQueue') = {}
                  /\ f.logs \in server']_vars

\* an entry is back in the queue after its batch failed, while an entry
\* logged after it has been delivered
C24_Witness ==
  \E n \in Delivered : Positions(logQueue, n - 1) # {}

\* C25: a flush is started as soon as the queue length reaches batchSize, and
\* at once for every fatal entry, and no POST to /logs carries more than
\* batchSize entries, also after earlier sends have failed.
C25_BatchesOfBatchSize ==
  [][/\ \A level \in Levels :
          LogCall(level)
            => LET pushed == Append(logQueue, LogEntry(requestCounter + 1, level))
               IN (level = "fatal" \/ Len(pushed) >= batchSize)
                    => Flush(pushed, FALSE) \in flushes' \ flushes
     /\ \A f \in flushes' : Posts(f) => Len(f.logs) <= batchSize]_vars

\* C26: retryAttempts is the number of retries: a batch whose every send
\* fails is posted again retryAttempts times after the initial POST before
\* sendLogsWithRetry gives up and flushLogs is told, and a batch is not
\* posted again after a POST of it succeeded.
C26_RetriesAfterInitialPost ==
  [][\A f \in flushes :
        /\ GaveUp(f) => f.attempt = 1 + retryAttempts
        /\ (PostRejected(f) /\ f.attempt <= retryAttempts)
             => [f EXCEPT !.phase = "delay"] \in flushes'
        /\ PostResolved(f) => \A g \in flushes' : g.logs # f.logs]_vars

\* C30: the queue keeps the order of logging across failed sends: also when
\* two flushes overlap and fail in either order, the entries in the queue and
\* in every batch sent are in the order in which Log accepted them.
C30_QueueKeepsLogOrder ==
  /\ Ordered(logQueue)
  /\ \A f \in flushes : Ordered(f.logs)
  /\ \A b \in server : Ordered(b)

====
